---- MODULE Spec2Model ----
(***************************************************************************)
(* A model of the Dropbox Paper client of paper.go: the APIClient, its two *)
(* private helpers rpc (JSON in, JSON out) and content (JSON in, result    *)
(* header plus raw body out) and the three public operations ListDocs,     *)
(* DownloadDoc and GetDocFolderInfo.                                       *)
(*                                                                         *)
(* A call blocks in c.HTTP.Do and again while it reads the response body,  *)
(* so each call is three steps: the operation up to HTTP.Do, the return of *)
(* HTTP.Do, and the rest of the helper up to the operation's return.       *)
(* The server, the transport and the caller's context are the environment. *)
(***************************************************************************)
EXTENDS Integers, Sequences, FiniteSets, TLC

(***************************************************************************)
(* JSON values.  An object is the sequence of its members in document      *)
(* order, as encoding/json reads them.                                     *)
(***************************************************************************)
JNull == [t |-> "null"]
JBool(b) == [t |-> "bool", v |-> b]
JNum(n) == [t |-> "num", v |-> n]
JStr(s) == [t |-> "str", v |-> s]
JArr(elems) == [t |-> "arr", v |-> elems]
JObj(members) == [t |-> "obj", v |-> members]
Member(key, val) == [key |-> key, val |-> val]

(***************************************************************************)
(* Bytes.  A byte string (a request or response body, a header value) is a *)
(* sequence of chunks: the complete text of one JSON value, the opening of *)
(* a JSON value that is never closed, or bytes that are no JSON at all.    *)
(***************************************************************************)
JsonText(j) == [k |-> "json", v |-> j]
OpenText == [k |-> "open", v |-> JNull]
RawBytes(n) == [k |-> "raw", v |-> JNum(n)]

(***************************************************************************)
(* Go types of paper.go, as far as encoding/json looks at them.  A struct  *)
(* field carries its Go name and its tag; the tag is the sequence of its   *)
(* lexemes, <<key, ":", name, options...>> when it is written key:"value". *)
(***************************************************************************)
TString == [k |-> "string"]
TBool == [k |-> "bool"]
TInt == [k |-> "int"]
TStringMap == [k |-> "map"]
TSlice(elem) == [k |-> "slice", elem |-> elem]
TStruct(fields) == [k |-> "struct", fields |-> fields]
Field(name, tag, type) == [name |-> name, tag |-> tag, type |-> type]
NoTag == <<>>

APIErrorType ==
    TStruct(<< Field("Summary", <<"json", ":", "error_summary">>, TString),
               Field("Metadata", <<"json", ":", "error">>, TStringMap) >>)

ListPaperDocsArgsType ==
    TStruct(<< Field("FilterBy", <<"json", ":", "filter_by", "omitempty">>, TString),
               Field("SortBy", <<"json", ":", "sort_by", "omitempty">>, TString),
               Field("SortOrder", <<"json", ":", "sort_order", "omitempty">>, TString),
               Field("Limit", <<"json", ":", "limit", "omitempty">>, TInt) >>)

CursorType ==
    TStruct(<< Field("Value", <<"json", ":", "value">>, TString),
               Field("Expiration", <<"json", ":", "expiration">>, TString) >>)

\* The tag of HasMore is written json"has_more", without the colon.
ListPaperDocsResponseType ==
    TStruct(<< Field("DocIDs", <<"json", ":", "doc_ids">>, TSlice(TString)),
               Field("Cursor", <<"json", ":", "cursor">>, CursorType),
               Field("HasMore", <<"json", "has_more">>, TBool) >>)

PaperDocExportType ==
    TStruct(<< Field("DocID", <<"json", ":", "doc_id", "omitempty">>, TString),
               Field("Format", <<"json", ":", "export_format", "omitempty">>, TString) >>)

PaperDocExportResultType ==
    TStruct(<< Field("Owner", <<"json", ":", "owner">>, TString),
               Field("Title", <<"json", ":", "title">>, TString),
               Field("Revision", <<"json", ":", "revision">>, TInt),
               Field("MIME", <<"json", ":", "mime_type">>, TString) >>)

RefPaperDocType ==
    TStruct(<< Field("DocID", <<"json", ":", "doc_id">>, TString) >>)

FolderType ==
    TStruct(<< Field("ID", <<"json", ":", "id">>, TString),
               Field("Name", <<"json", ":", "name">>, TString) >>)

FoldersContainingPaperDocType ==
    TStruct(<< Field("FolderSharingPolicyType", NoTag, TString),
               Field("Folders", NoTag, TSlice(FolderType)) >>)

(***************************************************************************)
(* encoding/json as the client uses it.                                    *)
(***************************************************************************)
\* reflect.StructTag.Get: the value of key, "" (here <<>>) unless the tag
\* is written key:"value".
TagLookup(tag, key) ==
    IF Len(tag) >= 3 /\ tag[1] = key /\ tag[2] = ":"
    THEN SubSeq(tag, 3, Len(tag))
    ELSE <<>>

\* The name a field is encoded and decoded under: the tag's name, else the
\* Go name of the field.
JSONName(f) ==
    LET tv == TagLookup(f.tag, "json")
    IN  IF tv # <<>> /\ tv[1] # "" THEN tv[1] ELSE f.name

OmitEmpty(f) ==
    LET tv == TagLookup(f.tag, "json")
    IN  \E i \in 2..Len(tv) : tv[i] = "omitempty"

\* Case folding of the names that occur; every other name of the model is
\* already in lower case.
FoldName(s) ==
    CASE s = "HasMore" -> "hasmore"
      [] s = "FolderSharingPolicyType" -> "foldersharingpolicytype"
      [] s = "Folders" -> "folders"
      [] s = "Doc_IDs" -> "doc_ids"
      [] OTHER -> s

\* The index of the field a member key decodes into: an exact match of the
\* name first, then a match under case folding; 0 when there is none.
FieldIndex(ty, key) ==
    LET exact == {i \in 1..Len(ty.fields) : JSONName(ty.fields[i]) = key}
        fold == {i \in 1..Len(ty.fields) :
                     FoldName(JSONName(ty.fields[i])) = FoldName(key)}
        Min(S) == CHOOSE i \in S : \A j \in S : i <= j
    IN  IF exact # {} THEN Min(exact)
        ELSE IF fold # {} THEN Min(fold)
        ELSE 0

FieldNames(ty) == {ty.fields[i].name : i \in 1..Len(ty.fields)}

FieldOf(ty, name) ==
    ty.fields[CHOOSE i \in 1..Len(ty.fields) : ty.fields[i].name = name]

\* The zero value of a type: what `var out T` holds.
RECURSIVE Zero(_)
Zero(ty) ==
    CASE ty.k = "string" -> ""
      [] ty.k = "bool" -> FALSE
      [] ty.k = "int" -> 0
      [] ty.k = "slice" -> <<>>
      [] ty.k = "map" -> <<>>
      [] ty.k = "struct" -> [n \in FieldNames(ty) |-> Zero(FieldOf(ty, n).type)]

IsEmptyValue(ty, val) ==
    CASE ty.k = "string" -> val = ""
      [] ty.k = "bool" -> val = FALSE
      [] ty.k = "int" -> val = 0
      [] ty.k = "slice" -> Len(val) = 0
      [] ty.k = "map" -> DOMAIN val = {}
      [] OTHER -> FALSE

\* json.Marshal of a value of type ty.
RECURSIVE Marshal(_, _)
Marshal(ty, val) ==
    CASE ty.k = "string" -> JStr(val)
      [] ty.k = "bool" -> JBool(val)
      [] ty.k = "int" -> JNum(val)
      [] ty.k = "slice" -> JArr([i \in 1..Len(val) |-> Marshal(ty.elem, val[i])])
      [] ty.k = "struct" ->
            LET kept == SelectSeq(ty.fields,
                            LAMBDA f : ~(OmitEmpty(f) /\ IsEmptyValue(f.type, val[f.name])))
            IN  JObj([i \in 1..Len(kept) |->
                        Member(JSONName(kept[i]),
                               Marshal(kept[i].type, val[kept[i].name]))])

\* The decoder's d.value: json value j stored into cur, a value of type ty.
\* A value of the wrong type is skipped and remembered as the error
\* (d.saveError), and decoding goes on with the members that follow.
RECURSIVE Decode(_, _, _)
RECURSIVE DecodeMembers(_, _, _, _)
DecodeMembers(ty, members, i, acc) ==
    IF i > Len(members) THEN acc
    ELSE LET fi == FieldIndex(ty, members[i].key)
         IN  IF fi = 0 THEN DecodeMembers(ty, members, i + 1, acc)
             ELSE LET f == ty.fields[fi]
                      d == Decode(f.type, members[i].val, acc.val[f.name])
                  IN  DecodeMembers(ty, members, i + 1,
                          [val |-> [acc.val EXCEPT ![f.name] = d.val],
                           err |-> acc.err \/ d.err])

Decode(ty, j, cur) ==
    IF j.t = "null" THEN
        [val |-> IF ty.k \in {"slice", "map"} THEN <<>> ELSE cur, err |-> FALSE]
    ELSE CASE ty.k = "string" ->
                IF j.t = "str" THEN [val |-> j.v, err |-> FALSE]
                ELSE [val |-> cur, err |-> TRUE]
           [] ty.k = "bool" ->
                IF j.t = "bool" THEN [val |-> j.v, err |-> FALSE]
                ELSE [val |-> cur, err |-> TRUE]
           [] ty.k = "int" ->
                IF j.t = "num" THEN [val |-> j.v, err |-> FALSE]
                ELSE [val |-> cur, err |-> TRUE]
           [] ty.k = "slice" ->
                IF j.t = "arr"
                THEN LET ds == [i \in 1..Len(j.v) |->
                                    Decode(ty.elem, j.v[i], Zero(ty.elem))]
                     IN  [val |-> [i \in 1..Len(j.v) |-> ds[i].val],
                          err |-> \E i \in 1..Len(j.v) : ds[i].err]
                ELSE [val |-> cur, err |-> TRUE]
           [] ty.k = "map" ->
                IF j.t = "obj"
                THEN LET keys == {j.v[i].key : i \in 1..Len(j.v)}
                         Last(key) == CHOOSE i \in 1..Len(j.v) :
                                         /\ j.v[i].key = key
                                         /\ \A n \in 1..Len(j.v) :
                                               j.v[n].key = key => n <= i
                         ds == [key \in keys |->
                                   Decode(TString, j.v[Last(key)].val, "")]
                     IN  [val |-> [key \in keys |-> ds[key].val],
                          err |-> \E i \in 1..Len(j.v) :
                                     Decode(TString, j.v[i].val, "").err]
                ELSE [val |-> cur, err |-> TRUE]
           [] ty.k = "struct" ->
                IF j.t = "obj"
                THEN DecodeMembers(ty, j.v, 1, [val |-> cur, err |-> FALSE])
                ELSE [val |-> cur, err |-> TRUE]

(***************************************************************************)
(* Errors.  paper.go returns the errors of encoding/json and net/http as   *)
(* they are and an APIError value for a decoded error body; kind names the *)
(* class of an error: EncodingError (json.Marshal, Decode, Unmarshal),     *)
(* TransportError (HTTP.Do or a read of the body failed), CancelledError   *)
(* (the context's error) and RemoteError (an APIError).                    *)
(***************************************************************************)
Nil == [kind |-> "nil", summary |-> "", metadata |-> <<>>]
Err(kind) == [kind |-> kind, summary |-> "", metadata |-> <<>>]
RemoteError(apierr) ==
    [kind |-> "RemoteError", summary |-> apierr.Summary, metadata |-> apierr.Metadata]

StatusOK == 200

(***************************************************************************)
(* A response body is a stream: its bytes, how many of them the connection *)
(* delivers, and how it ends: "EOF" after all of them, or with an error.   *)
(***************************************************************************)
Stream(chunks, delivered, end) ==
    [chunks |-> chunks, delivered |-> delivered, end |-> end]
Delivered(b) == SubSeq(b.chunks, 1, b.delivered)

\* ioutil.ReadAll: the bytes read up to EOF, or up to an error and the error.
ReadAll(b) ==
    [bytes |-> Delivered(b), err |-> IF b.end = "EOF" THEN Nil ELSE Err(b.end)]

\* json.NewDecoder(r).Decode(&v): reads r up to the end of the first JSON
\* value and stores that value; what follows the value is not read.
DecoderDecode(b, ty, cur) ==
    LET r == Delivered(b)
        ends == IF b.end = "EOF" THEN Err("EncodingError") ELSE Err(b.end)
    IN  IF r = <<>> THEN [val |-> cur, err |-> ends]
        ELSE IF r[1].k = "json" THEN
            LET d == Decode(ty, r[1].v, cur)
            IN  [val |-> d.val, err |-> IF d.err THEN Err("EncodingError") ELSE Nil]
        ELSE IF r[1].k = "raw" THEN [val |-> cur, err |-> Err("EncodingError")]
        ELSE IF \E i \in 2..Len(r) : r[i].k = "raw"
             THEN [val |-> cur, err |-> Err("EncodingError")]
             ELSE [val |-> cur, err |-> ends]

\* json.Unmarshal(data, &v): data must be one JSON value and nothing else
\* (checkValid), before anything is stored.
Unmarshal(data, ty, cur) ==
    IF Len(data) = 1 /\ data[1].k = "json"
    THEN LET d == Decode(ty, data[1].v, cur)
         IN  [val |-> d.val, err |-> IF d.err THEN Err("EncodingError") ELSE Nil]
    ELSE [val |-> cur, err |-> Err("EncodingError")]

\* textproto.CanonicalMIMEHeaderKey, on the header names of paper.go.
CanonicalHeaderKey(key) ==
    CASE key = "Dropbox-API-Arg" -> "Dropbox-Api-Arg"
      [] key = "Dropbox-API-Result" -> "Dropbox-Api-Result"
      [] OTHER -> key

\* http.Header.Set and http.Header.Get.
HeaderSet(h, key, value) ==
    [n \in DOMAIN h \cup {CanonicalHeaderKey(key)} |->
        IF n = CanonicalHeaderKey(key) THEN value ELSE h[n]]
HeaderGet(h, key) ==
    IF CanonicalHeaderKey(key) \in DOMAIN h THEN h[CanonicalHeaderKey(key)] ELSE <<>>

(***************************************************************************)
(* The operations: URL, request type and response type.                    *)
(***************************************************************************)
Ops == {"ListDocs", "DownloadDoc", "GetDocFolderInfo"}
RpcOps == {"ListDocs", "GetDocFolderInfo"}

URL(o) ==
    CASE o = "ListDocs" -> "https://api.dropboxapi.com/2/paper/docs/list"
      [] o = "DownloadDoc" -> "https://api.dropboxapi.com/2/paper/docs/download"
      [] o = "GetDocFolderInfo" -> "https://api.dropboxapi.com/2/paper/docs/get_folder_info"

InType(o) ==
    CASE o = "ListDocs" -> ListPaperDocsArgsType
      [] o = "DownloadDoc" -> PaperDocExportType
      [] o = "GetDocFolderInfo" -> RefPaperDocType

OutType(o) ==
    CASE o = "ListDocs" -> ListPaperDocsResponseType
      [] o = "DownloadDoc" -> PaperDocExportResultType
      [] o = "GetDocFolderInfo" -> FoldersContainingPaperDocType

(***************************************************************************)
(* The rest of a helper once HTTP.Do has returned a response.              *)
(***************************************************************************)
\* rpc without the status check of line 52: every body is decoded into out.
RpcTailIgnoringStatus(resp, outTy, out0) ==
    LET d == DecoderDecode(resp.body, outTy, out0)
    IN  [out |-> d.val, blob |-> <<>>, err |-> d.err]

\* rpc, lines 52-59: a non-200 body is decoded as an APIError and returned
\* as the error; a 200 body is decoded into out.
RpcTail(resp, outTy, out0) ==
    IF resp.status # StatusOK THEN
        LET d == DecoderDecode(resp.body, APIErrorType, Zero(APIErrorType))
        IN  IF d.err # Nil
            THEN [out |-> out0, blob |-> <<>>, err |-> d.err]
            ELSE [out |-> out0, blob |-> <<>>, err |-> RemoteError(d.val)]
    ELSE
        LET d == DecoderDecode(resp.body, outTy, out0)
        IN  [out |-> d.val, blob |-> <<>>, err |-> d.err]

\* content without the `result != ""` test of line 86: the header is
\* unmarshalled whether or not it is there.
ContentTailRequiringHeader(resp, outTy, out0) ==
    IF resp.status # StatusOK THEN
        LET d == DecoderDecode(resp.body, APIErrorType, Zero(APIErrorType))
        IN  IF d.err # Nil
            THEN [out |-> out0, blob |-> <<>>, err |-> d.err]
            ELSE [out |-> out0, blob |-> <<>>, err |-> RemoteError(d.val)]
    ELSE
        LET u == Unmarshal(HeaderGet(resp.header, "Dropbox-API-Result"), outTy, out0)
        IN  IF u.err # Nil
            THEN [out |-> u.val, blob |-> <<>>, err |-> u.err]
            ELSE LET all == ReadAll(resp.body)
                 IN  [out |-> u.val, blob |-> all.bytes, err |-> all.err]

\* content, lines 78-92: as rpc for a non-200 body; on 200 the result
\* header, when it is not "", is unmarshalled into out, and the body is
\* then read to its end.
ContentTail(resp, outTy, out0) ==
    IF resp.status # StatusOK THEN
        LET d == DecoderDecode(resp.body, APIErrorType, Zero(APIErrorType))
        IN  IF d.err # Nil
            THEN [out |-> out0, blob |-> <<>>, err |-> d.err]
            ELSE [out |-> out0, blob |-> <<>>, err |-> RemoteError(d.val)]
    ELSE
        LET result == HeaderGet(resp.header, "Dropbox-API-Result")
            u == IF result # <<>> THEN Unmarshal(result, outTy, out0)
                 ELSE [val |-> out0, err |-> Nil]
        IN  IF u.err # Nil
            THEN [out |-> u.val, blob |-> <<>>, err |-> u.err]
            ELSE LET all == ReadAll(resp.body)
                 IN  [out |-> u.val, blob |-> all.bytes, err |-> all.err]

\* resp.Body.Close() called before the final return only, not deferred: the
\* early returns leave the body open.
BodyClosesOnSuccess(res) == IF res.err = Nil THEN 1 ELSE 0

\* defer resp.Body.Close() (lines 51 and 76): how often the body is closed
\* when the helper returns res.
BodyCloses(res) == 1

\* The request rpc builds (lines 40-46).
RpcRequest(token, url, inTy, arg) ==
    LET body == <<JsonText(Marshal(inTy, arg))>>
        h1 == HeaderSet(<<>>, "Authorization", <<"Bearer ", token>>)
        h2 == HeaderSet(h1, "Content-Type", "application/json")
    IN  [method |-> "POST", url |-> url, header |-> h2, body |-> body]

\* The request content builds (lines 64-70).
ContentRequest(token, url, inTy, arg) ==
    LET body == <<JsonText(Marshal(inTy, arg))>>
        h1 == HeaderSet(<<>>, "Authorization", <<"Bearer ", token>>)
        h2 == HeaderSet(h1, "Dropbox-API-Arg", body)
    IN  [method |-> "POST", url |-> url, header |-> h2, body |-> body]

(***************************************************************************)
(* State.  client is the APIClient; every other variable is a function of  *)
(* the call (a goroutine of the caller that runs one operation at a time). *)
(***************************************************************************)
VARIABLES
    client,     \* the APIClient: Token and HTTP
    pc,         \* "idle", "inflight" (in HTTP.Do), "responded" (HTTP.Do
                \* returned a response), "done" (the operation returned)
    op,         \* the operation the call runs
    in,         \* its argument
    req,        \* the request it handed to HTTP.Do
    ctx,        \* the caller's context: "live", or when it was cancelled
    resp,       \* the response HTTP.Do returned
    out,        \* the destination value the operation returns (var out)
    blob,       \* the bytes DownloadDoc returns
    err,        \* the error the operation returns
    closed      \* how many times resp.Body was closed

vars == <<client, pc, op, in, req, ctx, resp, out, blob, err, closed>>

Calls == DOMAIN pc

NumCalls == 2

Tokens == {"t1", "t2"}

\* NewClient (lines 12-17).
NewClient(token) == [Token |-> token, HTTP |-> "http.Client{}"]

\* What a variable of a call holds while the call has no such value.
NoValue == <<>>
NoRequest == [method |-> "", url |-> "", header |-> <<>>, body |-> <<>>]
NoResponse == [status |-> 0, header |-> <<>>, body |-> [chunks |-> <<>>, delivered |-> 0, end |-> "EOF"]]

InitCalls(n) ==
    /\ pc = [c \in 1..n |-> "idle"]
    /\ op = [c \in 1..n |-> "none"]
    /\ in = [c \in 1..n |-> NoValue]
    /\ req = [c \in 1..n |-> NoRequest]
    /\ ctx = [c \in 1..n |-> "live"]
    /\ resp = [c \in 1..n |-> NoResponse]
    /\ out = [c \in 1..n |-> NoValue]
    /\ blob = [c \in 1..n |-> <<>>]
    /\ err = [c \in 1..n |-> Nil]
    /\ closed = [c \in 1..n |-> 0]

Init ==
    /\ \E token \in Tokens : client = NewClient(token)
    /\ InitCalls(1)

InitConc ==
    /\ \E token \in Tokens : client = NewClient(token)
    /\ InitCalls(NumCalls)

(***************************************************************************)
(* The operations, up to the call of HTTP.Do.                              *)
(***************************************************************************)
\* An operation that keeps the header it built in the client:
\* c.Token = "Bearer " + c.Token.
StartStoringHeader(c, o, arg) ==
    /\ pc[c] = "idle"
    /\ pc' = [pc EXCEPT ![c] = "inflight"]
    /\ op' = [op EXCEPT ![c] = o]
    /\ in' = [in EXCEPT ![c] = arg]
    /\ out' = [out EXCEPT ![c] = Zero(OutType(o))]
    /\ req' = [req EXCEPT ![c] =
                 IF o \in RpcOps
                 THEN RpcRequest(client.Token, URL(o), InType(o), arg)
                 ELSE ContentRequest(client.Token, URL(o), InType(o), arg)]
    /\ client' = [client EXCEPT !.Token = "Bearer"]
    /\ UNCHANGED <<ctx, resp, blob, err, closed>>

\* rpc lines 40-47 and content lines 63-71, under `var out T` of the
\* operation: the request is built and handed to HTTP.Do with ctx.
Start(c, o, arg) ==
    /\ pc[c] = "idle"
    /\ pc' = [pc EXCEPT ![c] = "inflight"]
    /\ op' = [op EXCEPT ![c] = o]
    /\ in' = [in EXCEPT ![c] = arg]
    /\ out' = [out EXCEPT ![c] = Zero(OutType(o))]
    /\ req' = [req EXCEPT ![c] =
                 IF o \in RpcOps
                 THEN RpcRequest(client.Token, URL(o), InType(o), arg)
                 ELSE ContentRequest(client.Token, URL(o), InType(o), arg)]
    /\ UNCHANGED <<client, ctx, resp, blob, err, closed>>

ListDocs(c, arg) == Start(c, "ListDocs", arg)
DownloadDoc(c, arg) == Start(c, "DownloadDoc", arg)
GetDocFolderInfo(c, arg) == Start(c, "GetDocFolderInfo", arg)

\* The operation returns res: the deferred Close runs, if a response was
\* acquired, and out, blob and err go to the caller.
Return(c, res, acquired) ==
    /\ pc' = [pc EXCEPT ![c] = "done"]
    /\ out' = [out EXCEPT ![c] = res.out]
    /\ blob' = [blob EXCEPT ![c] = res.blob]
    /\ err' = [err EXCEPT ![c] = res.err]
    /\ closed' = [closed EXCEPT ![c] = @ + (IF acquired THEN BodyCloses(res) ELSE 0)]

(***************************************************************************)
(* HTTP.Do returns (lines 47-50 and 71-74).                                *)
(***************************************************************************)
\* HTTP.Do(req) without req.WithContext(ctx): the response comes back
\* whether or not the context was cancelled.
DoResponseIgnoringContext(c, r) ==
    /\ pc[c] = "inflight"
    /\ pc' = [pc EXCEPT ![c] = "responded"]
    /\ resp' = [resp EXCEPT ![c] = r]
    /\ UNCHANGED <<client, op, in, req, ctx, out, blob, err, closed>>

\* With a response, while the context is live.
DoResponse(c, r) ==
    /\ pc[c] = "inflight"
    /\ ctx[c] = "live"
    /\ pc' = [pc EXCEPT ![c] = "responded"]
    /\ resp' = [resp EXCEPT ![c] = r]
    /\ UNCHANGED <<client, op, in, req, ctx, out, blob, err, closed>>

\* With a transport error (connection refused, DNS failure, timeout): the
\* helper returns it.
DoTransportError(c) ==
    /\ pc[c] = "inflight"
    /\ ctx[c] = "live"
    /\ Return(c, [out |-> out[c], blob |-> <<>>, err |-> Err("TransportError")], FALSE)
    /\ UNCHANGED <<client, op, in, req, ctx, resp>>

\* With the context's error, the context having been cancelled before a
\* response arrived: the helper returns it.
DoCancelled(c) ==
    /\ pc[c] = "inflight"
    /\ ctx[c] = "cancelledInFlight"
    /\ Return(c, [out |-> out[c], blob |-> <<>>, err |-> Err("CancelledError")], FALSE)
    /\ UNCHANGED <<client, op, in, req, ctx, resp>>

(***************************************************************************)
(* The caller cancels the context of a call.                               *)
(***************************************************************************)
\* Before HTTP.Do has a response.
Cancel(c) ==
    /\ pc[c] = "inflight"
    /\ ctx[c] = "live"
    /\ ctx' = [ctx EXCEPT ![c] = "cancelledInFlight"]
    /\ UNCHANGED <<client, pc, op, in, req, resp, out, blob, err, closed>>

\* After HTTP.Do returned the response: the body delivers n of its bytes
\* and then fails with the context's error, or it had been read already
\* (n = -1) and is left as it is.
CancelBody(c) ==
    /\ pc[c] = "responded"
    /\ ctx[c] = "live"
    /\ ctx' = [ctx EXCEPT ![c] = "cancelledReading"]
    /\ \E n \in -1..resp[c].body.delivered :
          resp' = [resp EXCEPT ![c].body =
                     IF n < 0 THEN @ ELSE Stream(@.chunks, n, "CancelledError")]
    /\ UNCHANGED <<client, pc, op, in, req, out, blob, err, closed>>

(***************************************************************************)
(* The helper reads the response and the operation returns.                *)
(***************************************************************************)
\* rpc lines 51-60, then ListDocs line 138 / GetDocFolderInfo line 189.
RpcReturn(c) ==
    /\ pc[c] = "responded"
    /\ op[c] \in RpcOps
    /\ Return(c, RpcTail(resp[c], OutType(op[c]), out[c]), TRUE)
    /\ UNCHANGED <<client, op, in, req, ctx, resp>>

\* content lines 76-92, then DownloadDoc line 163.
ContentReturn(c) ==
    /\ pc[c] = "responded"
    /\ op[c] = "DownloadDoc"
    /\ Return(c, ContentTail(resp[c], OutType(op[c]), out[c]), TRUE)
    /\ UNCHANGED <<client, op, in, req, ctx, resp>>

\* The caller takes the results and the goroutine is free for another call.
Forget(c) ==
    /\ pc[c] = "done"
    /\ pc' = [pc EXCEPT ![c] = "idle"]
    /\ op' = [op EXCEPT ![c] = "none"]
    /\ in' = [in EXCEPT ![c] = NoValue]
    /\ req' = [req EXCEPT ![c] = NoRequest]
    /\ ctx' = [ctx EXCEPT ![c] = "live"]
    /\ resp' = [resp EXCEPT ![c] = NoResponse]
    /\ out' = [out EXCEPT ![c] = NoValue]
    /\ blob' = [blob EXCEPT ![c] = <<>>]
    /\ err' = [err EXCEPT ![c] = Nil]
    /\ closed' = [closed EXCEPT ![c] = 0]
    /\ UNCHANGED client

(***************************************************************************)
(* The inputs of the model: the arguments callers pass and the responses a *)
(* server sends.                                                           *)
(***************************************************************************)
ListArgs ==
    { [FilterBy |-> "", SortBy |-> "", SortOrder |-> "", Limit |-> 100],
      [FilterBy |-> "accessed", SortBy |-> "modified",
       SortOrder |-> "ascending", Limit |-> 0] }
ExportArgs ==
    { [DocID |-> "d1", Format |-> "markdown"], [DocID |-> "", Format |-> "html"] }
RefArgs == { [DocID |-> "d1"], [DocID |-> "d2"] }

Obj1(k1, v1) == JObj(<<Member(k1, v1)>>)
Obj2(k1, v1, k2, v2) == JObj(<<Member(k1, v1), Member(k2, v2)>>)
Obj3(k1, v1, k2, v2, k3, v3) ==
    JObj(<<Member(k1, v1), Member(k2, v2), Member(k3, v3)>>)

CursorJSON == Obj2("value", JStr("cv"), "expiration", JStr("2026-01-01"))
\* {"doc_ids":["d1","d2"],"cursor":{...},"has_more":true}
ListMore ==
    Obj3("doc_ids", JArr(<<JStr("d1"), JStr("d2")>>), "cursor", CursorJSON,
         "has_more", JBool(TRUE))
\* {"doc_ids":["d3"],"cursor":{...},"has_more":false}
ListLast ==
    Obj3("doc_ids", JArr(<<JStr("d3")>>), "cursor", CursorJSON,
         "has_more", JBool(FALSE))
\* {"doc_ids":["d1"],"cursor":5,"has_more":true}: cursor is no object
ListBadCursor ==
    Obj3("doc_ids", JArr(<<JStr("d1")>>), "cursor", JNum(5), "has_more", JBool(TRUE))
\* {"doc_ids":["d1"],"HasMore":true}
ListGoName == Obj2("doc_ids", JArr(<<JStr("d1")>>), "HasMore", JBool(TRUE))
\* {"FolderSharingPolicyType":"team","Folders":[{"id":"1","name":"Eng"}]}
FolderInfo ==
    Obj2("FolderSharingPolicyType", JStr("team"),
         "Folders", JArr(<<Obj2("id", JStr("1"), "name", JStr("Eng"))>>))
\* {"error_summary":"conflict","error":{"reason":"x"}}
ErrConflict ==
    Obj2("error_summary", JStr("conflict"), "error", Obj1("reason", JStr("x")))
\* {"error_summary":"path/not_found","error":{".tag":"path","path":{".tag":"not_found"}}}
ErrNested ==
    Obj2("error_summary", JStr("path/not_found"),
         "error", Obj2(".tag", JStr("path"), "path", Obj1(".tag", JStr("not_found"))))
\* {"owner":"u1","title":"Doc","revision":3,"mime_type":"text/markdown"}
ExportMeta ==
    JObj(<<Member("owner", JStr("u1")), Member("title", JStr("Doc")),
           Member("revision", JNum(3)), Member("mime_type", JStr("text/markdown"))>>)
\* {"owner":"u1","title":"Doc","revision":"3"}: revision is a string
ExportMetaBadRevision ==
    Obj3("owner", JStr("u1"), "title", JStr("Doc"), "revision", JStr("3"))

Bodies ==
    << <<>>,                                   \* empty
       <<OpenText>>,                           \* truncated JSON
       <<RawBytes(1)>>,                        \* not JSON
       <<RawBytes(1), RawBytes(2)>>,
       <<JsonText(ListMore)>>,
       <<JsonText(ListLast)>>,
       <<JsonText(ListMore), RawBytes(1)>>,    \* a value, then other bytes
       <<JsonText(ListBadCursor)>>,
       <<JsonText(ListGoName)>>,
       <<JsonText(JNull)>>,
       <<JsonText(JArr(<<>>))>>,
       <<JsonText(FolderInfo)>>,
       <<JsonText(ErrConflict)>>,
       <<JsonText(ErrNested)>> >>

WithResult(value) == [n \in {"Dropbox-Api-Result"} |-> value]

\* Response headers: without Dropbox-API-Result, and with it.
Headers ==
    << <<>>,
       WithResult(<<>>),
       WithResult(<<JsonText(ExportMeta)>>),
       WithResult(<<OpenText>>),
       WithResult(<<JsonText(ExportMetaBadRevision)>>),
       WithResult(<<JsonText(ExportMeta), RawBytes(1)>>) >>

Statuses == {200, 409}
Ends == {"EOF", "TransportError"}

Response(status, header, body) ==
    [status |-> status, header |-> header, body |-> body]

AllArgs == [list |-> ListArgs, export |-> ExportArgs, ref |-> RefArgs]
AllResponses ==
    [status |-> Statuses, header |-> 1..Len(Headers), body |-> 1..Len(Bodies),
     end |-> Ends]

\* What runs concurrently: one argument per operation and a few responses.
ConcArgs ==
    [list |-> {[FilterBy |-> "", SortBy |-> "", SortOrder |-> "", Limit |-> 100]},
     export |-> {[DocID |-> "d1", Format |-> "markdown"]},
     ref |-> {[DocID |-> "d1"]}]
ConcResponses ==
    [status |-> Statuses, header |-> {3}, body |-> {5}, end |-> {"EOF"}]

(***************************************************************************)
(* The specifications.                                                     *)
(***************************************************************************)
\* HTTP.Do returns one of the responses R.
Respond(c, R) ==
    \E s \in R.status, h \in R.header, b \in R.body, e \in R.end :
       \E n \in 0..Len(Bodies[b]) :
          /\ e = "EOF" => n = Len(Bodies[b])
          /\ DoResponse(c, Response(s, Headers[h], Stream(Bodies[b], n, e)))

\* One caller that uses the client for one call after the other.
Next ==
    \/ \E c \in Calls, a \in AllArgs.list : ListDocs(c, a)
    \/ \E c \in Calls, a \in AllArgs.export : DownloadDoc(c, a)
    \/ \E c \in Calls, a \in AllArgs.ref : GetDocFolderInfo(c, a)
    \/ \E c \in Calls : Respond(c, AllResponses)
    \/ \E c \in Calls : DoTransportError(c)
    \/ \E c \in Calls : DoCancelled(c)
    \/ \E c \in Calls : Cancel(c)
    \/ \E c \in Calls : CancelBody(c)
    \/ \E c \in Calls : RpcReturn(c)
    \/ \E c \in Calls : ContentReturn(c)
    \/ \E c \in Calls : Forget(c)
Spec == Init /\ [][Next]_vars

\* NumCalls callers that share the client.
NextConc ==
    \/ \E c \in Calls, a \in ConcArgs.list : ListDocs(c, a)
    \/ \E c \in Calls, a \in ConcArgs.export : DownloadDoc(c, a)
    \/ \E c \in Calls, a \in ConcArgs.ref : GetDocFolderInfo(c, a)
    \/ \E c \in Calls : Respond(c, ConcResponses)
    \/ \E c \in Calls : DoTransportError(c)
    \/ \E c \in Calls : DoCancelled(c)
    \/ \E c \in Calls : Cancel(c)
    \/ \E c \in Calls : CancelBody(c)
    \/ \E c \in Calls : RpcReturn(c)
    \/ \E c \in Calls : ContentReturn(c)
    \/ \E c \in Calls : Forget(c)
SpecConc == InitConc /\ [][NextConc]_vars

(***************************************************************************)
(* Properties.  What follows reads the responses and results directly; it  *)
(* uses none of the decoding operators above.                              *)
(***************************************************************************)
Returned(c) == pc[c] = "done"
HasResponse(c) == resp[c].status # 0
FullyRead(c) == resp[c].body.end = "EOF"

\* The value of the last member of object j named key, else dflt.
MemberValue(j, key, dflt) ==
    LET at == {i \in 1..Len(j.v) : j.v[i].key = key}
    IN  IF at = {} THEN dflt
        ELSE j.v[CHOOSE i \in at : \A n \in at : n <= i].val

HasMember(j, key) == \E i \in 1..Len(j.v) : j.v[i].key = key

\* The bytes start with a complete JSON value.
StartsWithValue(bytes) == bytes # <<>> /\ bytes[1].k = "json"

\* j is an object of strings.
IsStringObject(j) == j.t = "obj" /\ \A i \in 1..Len(j.v) : j.v[i].val.t = "str"

\* j is an APIError: {"error_summary": string, "error": {string: string}},
\* either member optional; null counts as the empty APIError.
IsAPIError(j) ==
    \/ j.t = "null"
    \/ /\ j.t = "obj"
       /\ \A i \in 1..Len(j.v) :
             /\ j.v[i].key = "error_summary" => j.v[i].val.t = "str"
             /\ j.v[i].key = "error" => IsStringObject(j.v[i].val)

SummaryOf(j) ==
    IF j.t = "null" THEN "" ELSE MemberValue(j, "error_summary", JStr("")).v

MetadataOf(j) ==
    LET m == IF j.t = "null" THEN JObj(<<>>) ELSE MemberValue(j, "error", JObj(<<>>))
    IN  [key \in {m.v[i].key : i \in 1..Len(m.v)} |-> MemberValue(m, key, JStr("")).v]

\* C1: a metadata call (ListDocs, GetDocFolderInfo) that returns an error
\* returns a destination value with every field at its zero value.
C1_AllOrNothing ==
    \A c \in Calls :
        (Returned(c) /\ op[c] \in RpcOps /\ err[c] # Nil)
            => out[c] = Zero(OutType(op[c]))

\* C2: a response whose status is not 200 never gives success and never
\* content bytes; when its body starts with an APIError the call fails with
\* RemoteError carrying the body's error_summary and error, and when the
\* body is read to its end without yielding an APIError it fails with
\* EncodingError (a read that breaks off first fails with the read's error).
C2_NonOKStatusFails ==
    \A c \in Calls :
        (Returned(c) /\ HasResponse(c) /\ resp[c].status # StatusOK) =>
            LET got == Delivered(resp[c].body)
            IN  /\ err[c] # Nil
                /\ blob[c] = <<>>
                /\ (StartsWithValue(got) /\ IsAPIError(got[1].v)) =>
                      /\ err[c].kind = "RemoteError"
                      /\ err[c].summary = SummaryOf(got[1].v)
                      /\ err[c].metadata = MetadataOf(got[1].v)
                /\ ~(StartsWithValue(got) /\ IsAPIError(got[1].v)) =>
                      err[c].kind \in {"EncodingError", resp[c].body.end}
                /\ (~(StartsWithValue(got) /\ IsAPIError(got[1].v)) /\ FullyRead(c)) =>
                      err[c].kind = "EncodingError"

\* C2 happens: a 409 with {"error_summary":"conflict","error":{"reason":"x"}}
\* was answered with RemoteError "conflict".
C2_Witness ==
    \E c \in Calls :
        /\ Returned(c) /\ resp[c].status = 409
        /\ err[c].kind = "RemoteError" /\ err[c].summary = "conflict"
        /\ DOMAIN err[c].metadata = {"reason"}

\* A body is one well-formed JSON document of the expected shape: a single
\* JSON object and nothing after it.
WellFormedDocument(bytes) ==
    Len(bytes) = 1 /\ bytes[1].k = "json" /\ bytes[1].v.t = "obj"

\* C3: in a metadata call, a status-200 body that is not one well-formed
\* JSON document of the expected shape (empty, truncated, a value followed
\* by other bytes, a value of the wrong type) gives EncodingError.
C3_MalformedBodyFails ==
    \A c \in Calls :
        (/\ Returned(c) /\ op[c] \in RpcOps /\ HasResponse(c)
         /\ resp[c].status = StatusOK /\ FullyRead(c)
         /\ ~WellFormedDocument(resp[c].body.chunks))
            => err[c].kind = "EncodingError"

\* The Dropbox-API-Result header of the response of call c, "" when absent.
ResultHeader(c) ==
    IF "Dropbox-Api-Result" \in DOMAIN resp[c].header
    THEN resp[c].header["Dropbox-Api-Result"]
    ELSE <<>>

\* h is one JSON object of the PaperDocExportResult shape and nothing else.
IsExportResult(h) ==
    /\ Len(h) = 1 /\ h[1].k = "json" /\ h[1].v.t = "obj"
    /\ \A i \in 1..Len(h[1].v.v) :
          LET m == h[1].v.v[i]
          IN  /\ m.key \in {"owner", "title", "mime_type"} => m.val.t = "str"
              /\ m.key = "revision" => m.val.t = "num"

\* The PaperDocExportResult that object j states.
ExportResultOf(j) ==
    [Owner |-> MemberValue(j, "owner", JStr("")).v,
     Title |-> MemberValue(j, "title", JStr("")).v,
     Revision |-> MemberValue(j, "revision", JNum(0)).v,
     MIME |-> MemberValue(j, "mime_type", JStr("")).v]

ZeroExportResult == [Owner |-> "", Title |-> "", Revision |-> 0, MIME |-> ""]

DownloadedOK(c) ==
    /\ Returned(c) /\ op[c] = "DownloadDoc" /\ HasResponse(c)
    /\ resp[c].status = StatusOK /\ FullyRead(c)

C5_NoMetadataWithoutContent ==
    \A c \in Calls :
        (/\ Returned(c) /\ op[c] = "DownloadDoc" /\ HasResponse(c)
         /\ out[c] # ZeroExportResult)
            => (err[c] = Nil /\ blob[c] = resp[c].body.chunks)

\* C6: ListDocs on a status-200 response returns the has_more of the body
\* as its HasMore.
C6_HasMore ==
    \A c \in Calls :
        (/\ Returned(c) /\ op[c] = "ListDocs" /\ HasResponse(c)
         /\ resp[c].status = StatusOK /\ err[c] = Nil
         /\ WellFormedDocument(resp[c].body.chunks)
         /\ HasMember(resp[c].body.chunks[1].v, "has_more")
         /\ MemberValue(resp[c].body.chunks[1].v, "has_more", JNull).t = "bool")
            => out[c].HasMore = MemberValue(resp[c].body.chunks[1].v, "has_more", JNull).v

\* The JSON of a PaperDocExport: doc_id and export_format, each left out
\* when empty.
ExportArgJSON(arg) ==
    JObj((IF arg.DocID = "" THEN <<>> ELSE <<Member("doc_id", JStr(arg.DocID))>>)
         \o (IF arg.Format = "" THEN <<>>
             ELSE <<Member("export_format", JStr(arg.Format))>>))

\* C7: every request of DownloadDoc is a POST with Authorization: Bearer
\* <token>, a Dropbox-API-Arg header that is the JSON of the argument, no
\* Content-Type header and an empty body.
C7_ContentRequest ==
    \A c \in Calls :
        op[c] = "DownloadDoc" =>
            /\ req[c].method = "POST"
            /\ DOMAIN req[c].header = {"Authorization", "Dropbox-Api-Arg"}
            /\ req[c].header["Authorization"] = <<"Bearer ", client.Token>>
            /\ req[c].header["Dropbox-Api-Arg"] = <<JsonText(ExportArgJSON(in[c]))>>
            /\ req[c].body = <<>>

\* C8: a call whose context is cancelled before HTTP.Do has a response
\* never gets one, and returns CancelledError with the destination at its
\* zero value, no content, and nothing read or closed.
C8_Cancelled ==
    \A c \in Calls :
        ctx[c] = "cancelledInFlight" =>
            /\ pc[c] \in {"inflight", "done"}
            /\ ~HasResponse(c)
            /\ closed[c] = 0
            /\ out[c] = Zero(OutType(op[c]))
            /\ blob[c] = <<>>
            /\ Returned(c) => err[c].kind = "CancelledError"

\* C8 happens: a cancelled call has returned.
C8_Witness ==
    \E c \in Calls :
        Returned(c) /\ ctx[c] = "cancelledInFlight" /\ err[c].kind = "CancelledError"

\* Two calls were given the same operation, argument, context and response.
SameCall(c1, c2) ==
    /\ op[c1] # "none" /\ op[c1] = op[c2] /\ pc[c1] = pc[c2]
    /\ in[c1] = in[c2] /\ ctx[c1] = ctx[c2] /\ resp[c1] = resp[c2]

CallsIsolated ==
    /\ \A c \in Calls :
          op[c] # "none" =>
              req[c].header["Authorization"] = <<"Bearer ", client.Token>>
    /\ \A c1, c2 \in Calls :
          SameCall(c1, c2) =>
              /\ req[c1] = req[c2]
              /\ out[c1] = out[c2] /\ blob[c1] = blob[c2]
              /\ err[c1] = err[c2] /\ closed[c1] = closed[c2]

C10_BodyClosedOnce ==
    \A c \in Calls :
        closed[c] = IF Returned(c) /\ HasResponse(c) THEN 1 ELSE 0

\* C10 happens: a call has returned with the body closed once after it
\* failed to decode a 200 response.
C10_Witness ==
    \E c \in Calls :
        /\ Returned(c) /\ HasResponse(c) /\ closed[c] = 1
        /\ err[c].kind = "EncodingError" /\ resp[c].status = StatusOK

====
